---- MODULE Spec2Model ----
(***************************************************************************)
(* Model of beaker's precompile subsystem (src/beaker/precompile.py):      *)
(* Program / LSigProgram assembly, the byte patcher populate_template,     *)
(* the pyteal patcher populate_template_expr, py_encode_uvarint, the        *)
(* depth-first compile of AppPrecompile / LSigPrecompile, and the page     *)
(* split and create configuration of an AppPrecompile.                     *)
(***************************************************************************)
EXTENDS Integers, Sequences, FiniteSets, TLC

VARIABLES
    \* ---- py_encode_uvarint(integer) ----
    integer,          \* the argument (a Python int, see U64)
    buffer,           \* the bytes returned, None before the call
    \* ---- one LSigProgram object ----
    program,          \* constructor argument: the TEAL source, a sequence of lines
    rtvars,           \* constructor argument: runtime_template_variables
    built,            \* "ok" | "ValueError": outcome of LSigProgram.__init__
    teal,             \* self.teal
    template_values,  \* self._template_values
    raw_binary,       \* self.raw_binary
    binary_hash,      \* self.binary_hash
    source_map,       \* self.source_map
    binary,           \* cached_property Program.binary (None: not cached)
    assertions,       \* cached_property Program.assertions (None: not cached)
    completed,        \* history: some assemble call on the object returned normally
    call,             \* the call being returned to the caller, or Idle
    \* ---- a tree of AppPrecompile / LSigPrecompile nodes ----
    nodes,            \* node -> programs held by the precompile
    stack,            \* the Python call stack of compile() frames
    log,              \* history: the sequence of steps executed
    ncompile,         \* history: number of top-level compile calls made
    \* ---- one AppPrecompile and its create configuration ----
    approval,         \* self.approval, an AppProgram
    clear,            \* self.clear, an AppProgram
    config            \* the call on the AppPrecompile being returned, or Idle

varint_vars == <<integer, buffer>>
lsig_vars == <<program, rtvars, built, teal, template_values, raw_binary,
               binary_hash, source_map, binary, assertions, completed, call>>
tree_vars == <<nodes, stack, log, ncompile>>
app_vars == <<approval, clear, config>>
vars == <<integer, buffer, program, rtvars, built, teal, template_values,
          raw_binary, binary_hash, source_map, binary, assertions, completed,
          call, nodes, stack, log, ncompile, approval, clear, config>>

\* Python's None, and a value that is not None
None == <<>>
Some(v) == <<v>>
Val(o) == o[1]

(***************************************************************************)
(* Python ints in [0, 2^64): four 16-bit limbs, least significant first.   *)
(***************************************************************************)
Limb == 2 ^ 16

U64(lo) == <<lo % Limb, lo \div Limb, 0, 0>>

\* integer >= 0b1000_0000
GE128(x) == x[1] >= 128 \/ x[2] > 0 \/ x[3] > 0 \/ x[4] > 0

\* integer >> 7
Shr7(x) == [i \in 1..4 |->
              (x[i] \div 128) + (IF i < 4 THEN (x[i + 1] % 128) * 512 ELSE 0)]

\* bit j (0-based) of x
BitOf(x, j) == (x[(j \div 16) + 1] \div (2 ^ (j % 16))) % 2

\* v | 0b1000_0000 for a byte v
Or128(v) == IF v >= 128 THEN v ELSE v + 128

\* to_byte(integer) == integer & 0b1111_1111
to_byte(x) == x[1] % 256

\* py_encode_uvarint without the continuation bit
RECURSIVE py_encode_uvarint_nocont(_)
py_encode_uvarint_nocont(x) ==
    IF GE128(x)
    THEN <<to_byte(x)>> \o py_encode_uvarint_nocont(Shr7(x))
    ELSE <<to_byte(x)>>

\* py_encode_uvarint with the loop test integer > 0b1000_0000
RECURSIVE py_encode_uvarint_bad(_)
py_encode_uvarint_bad(x) ==
    IF x[1] > 128 \/ x[2] > 0 \/ x[3] > 0 \/ x[4] > 0
    THEN <<Or128(to_byte(x))>> \o py_encode_uvarint_bad(Shr7(x))
    ELSE <<to_byte(x)>>

RECURSIVE py_encode_uvarint(_)
py_encode_uvarint(x) ==
    IF GE128(x)
    THEN <<Or128(to_byte(x))>> \o py_encode_uvarint(Shr7(x))
    ELSE <<to_byte(x)>>

(***************************************************************************)
(* Python sequence helpers.  Indices of the source are 0-based; TLA+       *)
(* sequences are 1-based, so element i of a Python list is s[i + 1].       *)
(***************************************************************************)
Min(a, b) == IF a < b THEN a ELSE b
Max(a, b) == IF a > b THEN a ELSE b

\* s[a:b] of Python for 0 <= a, 0 <= b (bounds are clamped to len(s))
Slice(s, a, b) ==
    LET lo == Min(a, Len(s))
        hi == Min(b, Len(s))
    IN IF lo >= hi THEN <<>> ELSE SubSeq(s, lo + 1, hi)

RECURSIVE Flatten(_)
Flatten(ss) == IF ss = <<>> THEN <<>> ELSE Head(ss) \o Flatten(Tail(ss))

(***************************************************************************)
(* TEAL text.  A line is a sequence of lexemes; the single space is its    *)
(* own lexeme Sp, so that str.split(" "), str.startswith, str.strip and    *)
(* str.replace can be computed on it.  A program is a sequence of lines.   *)
(***************************************************************************)
Sp == " "

PUSH_BYTES == "pushbytes"
PUSH_INT == "pushint"
ZERO_BYTES == "\"\""
ZERO_INT == "0"

\* f"{op} {token} // {token}"
Statement(op, token) == <<op, Sp, token, Sp, "//", Sp, token>>

\* Index matching a line by its token alone, whatever its push-op
Index_lax(lines, statement) ==
    IF \E i \in 1..Len(lines) : Len(lines[i]) >= 3 /\ lines[i][3] = statement[3]
    THEN (CHOOSE i \in 1..Len(lines) :
             /\ Len(lines[i]) >= 3 /\ lines[i][3] = statement[3]
             /\ \A j \in 1..(i - 1) :
                   ~(Len(lines[j]) >= 3 /\ lines[j][3] = statement[3])) - 1
    ELSE -1

\* lines.index(statement): 0-based index of the first equal line, -1 for ValueError
Index(lines, statement) ==
    IF \E i \in 1..Len(lines) : lines[i] = statement
    THEN (CHOOSE i \in 1..Len(lines) :
             /\ lines[i] = statement
             /\ \A j \in 1..(i - 1) : lines[j] # statement) - 1
    ELSE -1

\* line.replace(old, new): every occurrence
Replace1_all(line, old, new) ==
    [i \in 1..Len(line) |-> IF line[i] = old THEN new ELSE line[i]]

\* line.replace(old, new, 1)
Replace1(line, old, new) ==
    IF \E i \in 1..Len(line) : line[i] = old
    THEN LET i == CHOOSE k \in 1..Len(line) :
                     line[k] = old /\ \A j \in 1..(k - 1) : line[j] # old
         IN [line EXCEPT ![i] = new]
    ELSE line

\* PrecompileTemplateValue(name=, is_bytes=, line=), pc defaults to 0
PrecompileTemplateValue(name, is_bytes, line) ==
    [name |-> name, is_bytes |-> is_bytes, line |-> line, pc |-> 0]

\* the loop of LSigProgram.__init__ over runtime_template_variables
RECURSIVE ScanTemplates(_, _, _)
ScanTemplates(lines, rtt, tvs) ==
    IF rtt = <<>>
    THEN [ok |-> TRUE, lines |-> lines, tvs |-> tvs]
    ELSE LET rtt_var == Head(rtt)
             token == rtt_var.token
             is_bytes == rtt_var.is_bytes
             op == IF is_bytes THEN PUSH_BYTES ELSE PUSH_INT
             statement == Statement(op, token)
             idx == Index(lines, statement)
         IN IF idx < 0
            THEN [ok |-> FALSE, lines |-> lines, tvs |-> tvs]
            ELSE ScanTemplates(
                    [lines EXCEPT ![idx + 1] =
                        Replace1(lines[idx + 1], token,
                                 IF is_bytes THEN ZERO_BYTES ELSE ZERO_INT)],
                    Tail(rtt),
                    Append(tvs, PrecompileTemplateValue(rtt_var.name, is_bytes, idx)))

\* LSigProgram.__init__(program, runtime_template_variables=rtt)
LSigProgramInit(prog, rtt) == ScanTemplates(prog, rtt, <<>>)

(***************************************************************************)
(* The compiler service behind client.compile(teal, source_map=True).      *)
(* It is external: the model gives it a small assembler and lets it        *)
(* answer with a well-formed response, with a response of another build    *)
(* (every pc shifted), with a malformed response, or with an error.        *)
(***************************************************************************)
MaxShift == 1

\* bytes the assembler emits for one line; <<-1>> when the line does not assemble
AsmLine(line) ==
    IF line = <<>> \/ line[1] = "//" \/ line[1] = "#pragma" THEN <<>>
    ELSE IF Len(line) >= 3 /\ line[1] = PUSH_INT /\ line[3] = ZERO_INT THEN <<129, 0>>
    ELSE IF Len(line) >= 3 /\ line[1] = PUSH_BYTES /\ line[3] = ZERO_BYTES THEN <<128, 0>>
    ELSE IF line = <<"return">> THEN <<67>>
    ELSE IF line = <<"assert">> THEN <<68>>
    ELSE IF line = <<"pop">> THEN <<72>>
    ELSE IF line = <<"dup">> THEN <<73>>
    ELSE <<-1>>

Assembles(lines) == \A i \in 1..Len(lines) : AsmLine(lines[i]) # <<-1>>

\* the version byte, `shift` constant-block bytes, then the lines' bytes
AsmBinary(lines, shift) ==
    <<8>> \o [i \in 1..shift |-> 32]
          \o Flatten([i \in 1..Len(lines) |-> AsmLine(lines[i])])

\* pc of the first byte of 0-based line l
AsmLinePc(lines, shift, l) ==
    1 + shift + Len(Flatten([i \in 1..l |-> AsmLine(lines[i])]))

\* SourceMap.line_to_pc: 0-based line -> its pcs (<<>>: the line has none)
AsmSourceMap(lines, shift) ==
    [l \in 0..(Len(lines) - 1) |->
        LET n == Len(AsmLine(lines[l + 1]))
            first == AsmLinePc(lines, shift, l)
        IN (IF l = 0 THEN [i \in 1..(1 + shift) |-> i - 1] ELSE <<>>)
           \o [i \in 1..n |-> first + i - 1]]

DropLine(sm, l) == [k \in DOMAIN sm |-> IF k = l THEN <<>> ELSE sm[k]]

CompileError == [raises |-> TRUE, result |-> None, hash |-> None, sourcemap |-> None]

GoodResponse(lines, shift) ==
    [raises |-> FALSE,
     result |-> Some(AsmBinary(lines, shift)),
     hash |-> Some(<<"sha512_256", AsmBinary(lines, shift)>>),
     sourcemap |-> Some(AsmSourceMap(lines, shift))]

\* what client.compile may answer for this source
Responses(lines, tvs) ==
    IF ~Assembles(lines) THEN {CompileError}
    ELSE {GoodResponse(lines, s) : s \in 0..MaxShift}
         \cup {CompileError,
               [GoodResponse(lines, 0) EXCEPT !.result = None],
               [GoodResponse(lines, 0) EXCEPT !.hash = None],
               [GoodResponse(lines, 0) EXCEPT !.sourcemap = None]}
         \cup {[GoodResponse(lines, 0) EXCEPT
                   !.sourcemap = Some(DropLine(AsmSourceMap(lines, 0), tvs[k].line))] :
               k \in 1..Len(tvs)}

\* SourceMap.get_pcs_for_line(line): None when the map has no pc for the line
get_pcs_for_line(sm, line) ==
    IF line \in DOMAIN sm THEN sm[line] ELSE None

(***************************************************************************)
(* Program.assemble: the three fields are assigned one after another from  *)
(* the response; an exception leaves the later ones as they were.          *)
(***************************************************************************)
ProgramAssemble(p, result) ==
    IF result.raises THEN [p EXCEPT !.status = "AlgodHTTPError"]
    ELSE IF result.result = None THEN [p EXCEPT !.status = "binascii.Error"]
    ELSE LET p1 == [p EXCEPT !.raw_binary = result.result]
         IN IF result.hash = None THEN [p1 EXCEPT !.status = "KeyError"]
            ELSE LET p2 == [p1 EXCEPT !.binary_hash = result.hash]
                 IN IF result.sourcemap = None
                    THEN [p2 EXCEPT !.status = "SourceMapVersionError"]
                    ELSE [p2 EXCEPT !.source_map = result.sourcemap,
                                    !.status = "ok"]

\* ResolvePcs keeping a pc that an earlier assemble has set
RECURSIVE ResolvePcs_once(_, _, _)
ResolvePcs_once(tvs, sm, k) ==
    IF k > Len(tvs) THEN [tvs |-> tvs, status |-> "ok"]
    ELSE LET pcs == get_pcs_for_line(sm, tvs[k].line)
         IN IF pcs = None
            THEN [tvs |-> tvs, status |-> "TypeError"]
            ELSE ResolvePcs_once(
                    [tvs EXCEPT ![k].pc = IF @ = 0 THEN pcs[1] + 1 ELSE @], sm, k + 1)

\* the loop of LSigProgram.assemble: tv.pc = get_pcs_for_line(tv.line)[0] + 1
RECURSIVE ResolvePcs(_, _, _)
ResolvePcs(tvs, sm, k) ==
    IF k > Len(tvs) THEN [tvs |-> tvs, status |-> "ok"]
    ELSE LET pcs == get_pcs_for_line(sm, tvs[k].line)
         IN IF pcs = None
            THEN [tvs |-> tvs, status |-> "TypeError"]
            ELSE ResolvePcs([tvs EXCEPT ![k].pc = pcs[1] + 1], sm, k + 1)

\* LSigProgram.assemble(client) when client.compile answers `result`
LSigProgramAssemble(p, tvs, result) ==
    LET q == ProgramAssemble(p, result)
    IN IF q.status # "ok"
       THEN [p |-> q, tvs |-> tvs, status |-> q.status]
       ELSE LET r == ResolvePcs(tvs, Val(q.source_map), 1)
            IN [p |-> q, tvs |-> r.tvs, status |-> r.status]

(***************************************************************************)
(* Argument values.  A Python argument is an int, a bytes or a str; val is *)
(* the int (see U64), the bytes, or the str's code points.                 *)
(***************************************************************************)
IntArg(n) == [type |-> "int", val |-> U64(n)]
BytesArg(b) == [type |-> "bytes", val |-> b]
StrArg(cps) == [type |-> "str", val |-> cps]

\* one code point of str.encode("utf-8")
Utf8Char(cp) ==
    IF cp < 128 THEN <<cp>>
    ELSE IF cp < 2048 THEN <<192 + (cp \div 64), 128 + (cp % 64)>>
    ELSE IF cp < 65536
         THEN <<224 + (cp \div 4096), 128 + ((cp \div 64) % 64), 128 + (cp % 64)>>
         ELSE <<240 + (cp \div 262144), 128 + ((cp \div 4096) % 64),
                128 + ((cp \div 64) % 64), 128 + (cp % 64)>>

\* arg.encode("utf-8")
Utf8(cps) == Flatten([i \in 1..Len(cps) |-> Utf8Char(cps[i])])

(***************************************************************************)
(* LSigProgram.populate_template                                           *)
(***************************************************************************)
\* CurrVal with the length prefix counting the characters of a str
CurrVal_chars(tv, arg) ==
    IF tv.is_bytes
    THEN IF arg.type = "int"
         THEN [status |-> "TealTypeError", val |-> <<>>]
         ELSE LET b == IF arg.type = "str" THEN Utf8(arg.val) ELSE arg.val
              IN [status |-> "ok",
                  val |-> py_encode_uvarint(U64(Len(arg.val))) \o b]
    ELSE IF arg.type # "int"
         THEN [status |-> "TealTypeError", val |-> <<>>]
         ELSE [status |-> "ok", val |-> py_encode_uvarint(arg.val)]

\* CurrVal coercing a str or bytes given for an integer placeholder to its length
CurrVal_coerce(tv, arg) ==
    IF tv.is_bytes
    THEN IF arg.type = "int"
         THEN [status |-> "TealTypeError", val |-> <<>>]
         ELSE LET b == IF arg.type = "str" THEN Utf8(arg.val) ELSE arg.val
              IN [status |-> "ok", val |-> py_encode_uvarint(U64(Len(b))) \o b]
    ELSE IF arg.type # "int"
         THEN [status |-> "ok", val |-> py_encode_uvarint(U64(Len(arg.val)))]
         ELSE [status |-> "ok", val |-> py_encode_uvarint(arg.val)]

\* the branch on tv.is_bytes that computes curr_val (or raises)
CurrVal(tv, arg) ==
    IF tv.is_bytes
    THEN IF arg.type = "int"
         THEN [status |-> "TealTypeError", val |-> <<>>]
         ELSE LET b == IF arg.type = "str" THEN Utf8(arg.val) ELSE arg.val
              IN [status |-> "ok", val |-> py_encode_uvarint(U64(Len(b))) \o b]
    ELSE IF arg.type # "int"
         THEN [status |-> "TealTypeError", val |-> <<>>]
         ELSE [status |-> "ok", val |-> py_encode_uvarint(arg.val)]

\* populated_binary[a:b] = v
SliceAssign(l, a, b, v) ==
    LET lo == Min(a, Len(l))
        hi == Max(lo, Min(b, Len(l)))
    IN Slice(l, 0, lo) \o v \o Slice(l, hi, Len(l))

\* one iteration of the loop over enumerate(self._template_values)
PatchStep(st, tv, arg) ==
    LET curr_val == CurrVal(tv, arg)
    IN IF curr_val.status # "ok"
       THEN [st EXCEPT !.status = curr_val.status]
       ELSE [st EXCEPT
               !.curr_val = curr_val.val,
               !.populated_binary =
                   SliceAssign(st.populated_binary, tv.pc + st.offset,
                               tv.pc + st.offset + 1, curr_val.val),
               !.offset = st.offset + Len(curr_val.val) - 1]

\* the local state after the first k iterations (or at the raise)
RECURSIVE PatchLoop(_, _, _, _)
PatchLoop(raw, tvs, args, k) ==
    IF k = 0
    THEN [populated_binary |-> raw, offset |-> 0, curr_val |-> <<>>,
          status |-> "ok"]
    ELSE LET st == PatchLoop(raw, tvs, args, k - 1)
         IN IF st.status # "ok" THEN st ELSE PatchStep(st, tvs[k], args[k])

\* populate_template asserting only len(args) >= len(self._template_values)
populate_template_lax(raw, tvs, args) ==
    IF raw = None \/ ~(Len(tvs) > 0) \/ Len(args) < Len(tvs)
    THEN [status |-> "AssertionError", value |-> None]
    ELSE LET st == PatchLoop(Val(raw), tvs, args, Len(tvs))
         IN IF st.status # "ok"
            THEN [status |-> st.status, value |-> None]
            ELSE [status |-> "ok", value |-> Some(st.populated_binary)]

\* populate_template without the assertion len(self._template_values) > 0
populate_template_nocheck(raw, tvs, args) ==
    IF raw = None \/ Len(args) # Len(tvs)
    THEN [status |-> "AssertionError", value |-> None]
    ELSE LET st == PatchLoop(Val(raw), tvs, args, Len(tvs))
         IN IF st.status # "ok"
            THEN [status |-> st.status, value |-> None]
            ELSE [status |-> "ok", value |-> Some(st.populated_binary)]

\* populate_template(*args) on an object with these fields
populate_template(raw, tvs, args) ==
    IF raw = None \/ ~(Len(tvs) > 0) \/ Len(args) # Len(tvs)
    THEN [status |-> "AssertionError", value |-> None]
    ELSE LET st == PatchLoop(Val(raw), tvs, args, Len(tvs))
         IN IF st.status # "ok"
            THEN [status |-> st.status, value |-> None]
            ELSE [status |-> "ok", value |-> Some(st.populated_binary)]

(***************************************************************************)
(* Program.binary, a cached_property: computed from raw_binary on the      *)
(* first successful read and returned from the cache ever after.           *)
(***************************************************************************)
BinaryProperty(raw, cache) ==
    IF cache # None THEN [status |-> "ok", value |-> cache, cache |-> cache]
    ELSE IF raw = None \/ Val(raw) = <<>>
         THEN [status |-> "AssertionError", value |-> None, cache |-> cache]
         ELSE [status |-> "ok", value |-> raw, cache |-> raw]

(***************************************************************************)
(* LSigProgram.populate_template_expr.  An argument expression is modelled *)
(* by the value it evaluates to; the pyteal operations by what the AVM     *)
(* does when the built sequence runs.                                      *)
(***************************************************************************)
\* the runtime value of Int(n), Bytes(b), Bytes("s")
TealValue(arg) ==
    IF arg.type = "int" THEN [type |-> "uint64", val |-> arg.val]
    ELSE IF arg.type = "str" THEN [type |-> "bytes", val |-> Utf8(arg.val)]
    ELSE [type |-> "bytes", val |-> arg.val]

\* beaker.lib.strings.encode_uvarint(val), evaluated
encode_uvarint(val) == py_encode_uvarint(val)

\* Len(args[idx]) / encode_uvarint(args[idx]) accept only the matching TealType
ExprTypeOk(tv, v) == tv.is_bytes <=> (v.type = "bytes")

\* the four stores of one template value, executed
ExprStep(st, bin, tv, v) ==
    LET curr_val == IF tv.is_bytes
                    THEN encode_uvarint(U64(Len(v.val))) \o v.val
                    ELSE encode_uvarint(v.val)
    IN IF st.last_pos > tv.pc \/ tv.pc > Len(bin)
       THEN [st EXCEPT !.status = "panic", !.curr_val = curr_val]
       ELSE [st EXCEPT
               !.curr_val = curr_val,
               !.buff = st.buff \o Slice(bin, st.last_pos, tv.pc) \o curr_val,
               !.offset = st.offset + Len(curr_val) - 1,
               !.last_pos = tv.pc + 1]

\* the scratch variables after the stores of the first k template values
RECURSIVE ExprLoop(_, _, _, _)
ExprLoop(bin, tvs, vals, k) ==
    IF k = 0
    THEN [last_pos |-> 0, offset |-> 0, curr_val |-> <<>>, buff |-> <<>>,
          status |-> "ok"]
    ELSE LET st == ExprLoop(bin, tvs, vals, k - 1)
         IN IF st.status # "ok" THEN st ELSE ExprStep(st, bin, tvs[k], vals[k])

\* buff.store(Concat(buff.load(), Suffix(self.binary, last_pos.load()))), buff.load()
ExprFinish(st, bin) ==
    IF st.status # "ok" THEN [status |-> st.status, value |-> None]
    ELSE IF st.last_pos > Len(bin) THEN [status |-> "panic", value |-> None]
    ELSE [status |-> "ok",
          value |-> Some(st.buff \o Slice(bin, st.last_pos, Len(bin)))]

\* populate_template_expr(*args) built and then run; cache is Program.binary's
populate_template_expr(raw, cache, tvs, args) ==
    IF raw = None \/ Len(tvs) = 0 \/ Len(args) # Len(tvs)
    THEN [status |-> "AssertionError", value |-> None, cache |-> cache]
    ELSE LET vals == [i \in 1..Len(args) |-> TealValue(args[i])]
             bad == {i \in 1..Len(tvs) : ~ExprTypeOk(tvs[i], vals[i])}
             bin == BinaryProperty(raw, cache)
         IN IF 1 \in bad
            THEN [status |-> "TealTypeError", value |-> None, cache |-> cache]
            ELSE IF bin.status # "ok"
            THEN [status |-> bin.status, value |-> None, cache |-> cache]
            ELSE IF bad # {}
            THEN [status |-> "TealTypeError", value |-> None, cache |-> bin.cache]
            ELSE LET r == ExprFinish(ExprLoop(Val(bin.value), tvs, vals, Len(tvs)),
                                     Val(bin.value))
                 IN [status |-> r.status, value |-> r.value, cache |-> bin.cache]

(***************************************************************************)
(* _gather_asserts and Program.assertions                                  *)
(***************************************************************************)
\* line.split(" ")[0]
FirstChunk(line) ==
    IF \E i \in 1..Len(line) : line[i] = Sp
    THEN SubSeq(line, 1, (CHOOSE i \in 1..Len(line) :
                            line[i] = Sp /\ \A j \in 1..(i - 1) : line[j] # Sp) - 1)
    ELSE line

\* line_before.startswith("//")
IsComment(line) == line # <<>> /\ line[1] = "//"

\* line_before.strip("// "): lexemes made of '/' and ' ' only are dropped at both ends
RECURSIVE StripChars(_)
StripChars(line) ==
    IF line = <<>> THEN line
    ELSE IF line[1] \in {"//", "/", Sp} THEN StripChars(Tail(line))
    ELSE IF line[Len(line)] \in {"//", "/", Sp}
         THEN StripChars(SubSeq(line, 1, Len(line) - 1))
         ELSE line

\* the loop of _gather_asserts from line idx on; asserts is the dict so far
RECURSIVE GatherFrom(_, _, _, _)
GatherFrom(program_lines, src_map, idx, asserts) ==
    IF idx >= Len(program_lines) THEN [status |-> "ok", asserts |-> asserts]
    ELSE IF FirstChunk(program_lines[idx + 1]) # <<"assert">>
    THEN GatherFrom(program_lines, src_map, idx + 1, asserts)
    ELSE LET pcs == get_pcs_for_line(src_map, idx)
             line_before == program_lines[IF idx = 0 THEN Len(program_lines) ELSE idx]
         IN IF pcs = None THEN [status |-> "TypeError", asserts |-> asserts]
            ELSE IF ~IsComment(line_before)
            THEN GatherFrom(program_lines, src_map, idx + 1, asserts)
            ELSE GatherFrom(program_lines, src_map, idx + 1,
                     {a \in asserts : a.pc # pcs[1]}
                     \cup {[pc |-> pcs[1], line |-> idx,
                            message |-> StripChars(line_before)]})

_gather_asserts(program_lines, src_map) == GatherFrom(program_lines, src_map, 0, {})

\* Program.assertions, a cached_property
AssertionsProperty(lines, sm, cache) ==
    IF cache # None THEN [status |-> "ok", value |-> cache, cache |-> cache]
    ELSE IF sm = None
    THEN [status |-> "AssertionError", value |-> None, cache |-> cache]
    ELSE LET g == _gather_asserts(lines, Val(sm))
         IN IF g.status # "ok"
            THEN [status |-> g.status, value |-> None, cache |-> cache]
            ELSE [status |-> "ok", value |-> Some(g.asserts), cache |-> Some(g.asserts)]

\* LSigProgram.hash()
LSigHash(bh) ==
    IF bh = None THEN [status |-> "TealInputError", value |-> None]
    ELSE [status |-> "ok", value |-> Some(<<"decode_address", Val(bh)>>)]

(***************************************************************************)
(* Inputs of the model                                                     *)
(***************************************************************************)
MaxArgs == 3

VarA == [name |-> "a", token |-> "TMPL_A", is_bytes |-> FALSE]
VarB == [name |-> "b", token |-> "TMPL_B", is_bytes |-> TRUE]
VarC == [name |-> "c", token |-> "TMPL_C", is_bytes |-> FALSE]

Pragma == <<"#pragma", Sp, "version", Sp, "8">>
PushA == Statement(PUSH_INT, "TMPL_A")
PushB == Statement(PUSH_BYTES, "TMPL_B")
PushC == Statement(PUSH_INT, "TMPL_C")
Comment == <<"//", Sp, "must", Sp, "be", Sp, "positive">>

Programs ==
    { <<Pragma, PushA, <<"pop">>, <<"return">>>>,              \* placeholder first
      <<Pragma, <<"dup">>, PushB>>,                             \* placeholder last
      <<Pragma, PushB, <<"dup">>, Comment, <<"assert">>, PushA>>, \* mixed kinds
      <<Pragma, PushC, PushB, PushA>>,                          \* three in a row
      <<Pragma, Statement(PUSH_BYTES, "TMPL_A"), <<"return">>>>, \* wrong push-op
      <<Pragma, <<"dup">>, <<"assert">>>>,                      \* no placeholder
      <<<<"assert">>, <<"return">>, Comment>>,                  \* assert on line 0
      <<Pragma, PushA, PushA>>,                                 \* the same line twice
      <<Pragma, <<Sp>> \o PushA, PushC \o <<Sp, "pop">>>> }     \* inexact lines

\* lists of distinct runtime template variables, in any declaration order
RtVarLists ==
    {<<>>} \cup {<<v>> : v \in {VarA, VarB, VarC}}
    \cup {p \in {VarA, VarB, VarC} \X {VarA, VarB, VarC} : p[1] # p[2]}
    \cup {<<VarA, VarB, VarC>>, <<VarC, VarB, VarA>>, <<VarB, VarA, VarC>>}

ArgValues ==
    {IntArg(5), IntArg(300), BytesArg(<<7, 9>>), StrArg(<<233>>)}

RECURSIVE Tuples(_, _)
Tuples(S, n) ==
    IF n = 0 THEN {<<>>}
    ELSE {Append(t, x) : t \in Tuples(S, n - 1), x \in S}

ArgTuples == UNION {Tuples(ArgValues, n) : n \in 0..MaxArgs}

(***************************************************************************)
(* One LSigProgram and the calls made on it                                *)
(***************************************************************************)
Call(op, args, status, value) ==
    [op |-> op, args |-> args, status |-> status, value |-> value]

Idle == Call("idle", <<>>, "ok", None)

VarintIdle == integer = U64(0) /\ buffer = None

TreeIdle == nodes = <<>> /\ stack = <<>> /\ log = <<>> /\ ncompile = 0

\* Program.__init__: nothing assembled yet
FreshProgram == [raw_binary |-> None, binary_hash |-> None, source_map |-> None]

AppIdle == approval = FreshProgram /\ clear = FreshProgram /\ config = Idle

InitLSig ==
    /\ program \in Programs
    /\ rtvars \in RtVarLists
    /\ LET o == LSigProgramInit(program, rtvars)
       IN /\ built = (IF o.ok THEN "ok" ELSE "ValueError")
          /\ teal = (IF o.ok THEN o.lines ELSE program)
          /\ template_values = (IF o.ok THEN o.tvs ELSE <<>>)
    /\ raw_binary = None
    /\ binary_hash = None
    /\ source_map = None
    /\ binary = None
    /\ assertions = None
    /\ completed = FALSE
    /\ call = Idle
    /\ VarintIdle
    /\ TreeIdle
    /\ AppIdle

\* self.assemble(client)
Assemble ==
    /\ built = "ok"
    /\ call = Idle
    /\ \E result \in Responses(teal, template_values) :
         LET p == [raw_binary |-> raw_binary, binary_hash |-> binary_hash,
                   source_map |-> source_map, status |-> "ok"]
             r == LSigProgramAssemble(p, template_values, result)
         IN /\ raw_binary' = r.p.raw_binary
            /\ binary_hash' = r.p.binary_hash
            /\ source_map' = r.p.source_map
            /\ template_values' = r.tvs
            /\ completed' = (completed \/ r.status = "ok")
            /\ call' = Call("assemble", <<>>, r.status, None)
    /\ UNCHANGED <<program, rtvars, built, teal, binary, assertions>>
    /\ UNCHANGED varint_vars
    /\ UNCHANGED tree_vars
    /\ UNCHANGED app_vars

\* self.binary
ReadBinary ==
    /\ built = "ok"
    /\ call = Idle
    /\ LET r == BinaryProperty(raw_binary, binary)
       IN /\ binary' = r.cache
          /\ call' = Call("binary", <<>>, r.status, r.value)
    /\ UNCHANGED <<program, rtvars, built, teal, template_values, raw_binary,
                   binary_hash, source_map, assertions, completed>>
    /\ UNCHANGED varint_vars
    /\ UNCHANGED tree_vars
    /\ UNCHANGED app_vars

\* self.assertions
ReadAssertions ==
    /\ built = "ok"
    /\ call = Idle
    /\ LET r == AssertionsProperty(teal, source_map, assertions)
       IN /\ assertions' = r.cache
          /\ call' = Call("assertions", <<>>, r.status, r.value)
    /\ UNCHANGED <<program, rtvars, built, teal, template_values, raw_binary,
                   binary_hash, source_map, binary, completed>>
    /\ UNCHANGED varint_vars
    /\ UNCHANGED tree_vars
    /\ UNCHANGED app_vars

\* self.hash()
Hash ==
    /\ built = "ok"
    /\ call = Idle
    /\ LET r == LSigHash(binary_hash)
       IN call' = Call("hash", <<>>, r.status, r.value)
    /\ UNCHANGED <<program, rtvars, built, teal, template_values, raw_binary,
                   binary_hash, source_map, binary, assertions, completed>>
    /\ UNCHANGED varint_vars
    /\ UNCHANGED tree_vars
    /\ UNCHANGED app_vars

\* populate_template patching self.raw_binary in place instead of a copy
PopulateTemplate_inplace ==
    /\ built = "ok"
    /\ call = Idle
    /\ \E args \in ArgTuples :
         LET r == populate_template(raw_binary, template_values, args)
         IN /\ call' = Call("populate_template", args, r.status, r.value)
            /\ raw_binary' = IF r.status = "ok" THEN r.value ELSE raw_binary
    /\ UNCHANGED <<program, rtvars, built, teal, template_values,
                   binary_hash, source_map, binary, assertions, completed>>
    /\ UNCHANGED varint_vars
    /\ UNCHANGED tree_vars
    /\ UNCHANGED app_vars

\* self.populate_template(*args)
PopulateTemplate ==
    /\ built = "ok"
    /\ call = Idle
    /\ \E args \in ArgTuples :
         LET r == populate_template(raw_binary, template_values, args)
         IN call' = Call("populate_template", args, r.status, r.value)
    /\ UNCHANGED <<program, rtvars, built, teal, template_values, raw_binary,
                   binary_hash, source_map, binary, assertions, completed>>
    /\ UNCHANGED varint_vars
    /\ UNCHANGED tree_vars
    /\ UNCHANGED app_vars

\* self.populate_template_expr(*args), and the run of the expression it returns
PopulateTemplateExpr ==
    /\ built = "ok"
    /\ call = Idle
    /\ \E args \in ArgTuples :
         LET r == populate_template_expr(raw_binary, binary, template_values, args)
         IN /\ binary' = r.cache
            /\ call' = Call("populate_template_expr", args, r.status, r.value)
    /\ UNCHANGED <<program, rtvars, built, teal, template_values, raw_binary,
                   binary_hash, source_map, assertions, completed>>
    /\ UNCHANGED varint_vars
    /\ UNCHANGED tree_vars
    /\ UNCHANGED app_vars

\* the caller takes the outcome; the object is ready for the next call
Return ==
    /\ call # Idle
    /\ call' = Idle
    /\ UNCHANGED <<program, rtvars, built, teal, template_values, raw_binary,
                   binary_hash, source_map, binary, assertions, completed>>
    /\ UNCHANGED varint_vars
    /\ UNCHANGED tree_vars
    /\ UNCHANGED app_vars

Next ==
    \/ Assemble
    \/ ReadBinary
    \/ ReadAssertions
    \/ Hash
    \/ PopulateTemplate
    \/ PopulateTemplateExpr
    \/ Return

Spec == InitLSig /\ [][Next]_vars

(***************************************************************************)
(* Claims about the patchers (specification Spec)                          *)
(***************************************************************************)
\* the object is as a completed assemble leaves it: the three fields are those of
\* one well-formed compile response and every pc is resolved from its source map
Assembled ==
    /\ built = "ok"
    /\ raw_binary # None /\ binary_hash # None /\ source_map # None
    /\ Assembles(teal)
    /\ \E s \in 0..MaxShift :
         LET result == GoodResponse(teal, s)
         IN /\ raw_binary = result.result
            /\ binary_hash = result.hash
            /\ source_map = result.sourcemap
    /\ \A k \in 1..Len(template_values) :
         LET pcs == get_pcs_for_line(Val(source_map), template_values[k].line)
         IN pcs # None /\ template_values[k].pc = pcs[1] + 1

\* the argument has the kind of the placeholder
KindMatches(tv, arg) == tv.is_bytes <=> (arg.type \in {"bytes", "str"})

ArgsMatch(tvs, args) ==
    /\ Len(args) = Len(tvs)
    /\ \A i \in 1..Len(tvs) : KindMatches(tvs[i], args[i])

\* the declared order is not the order of the lines in the source
OutOfOrder(tvs) == \E i, j \in 1..Len(tvs) : i < j /\ tvs[i].pc > tvs[j].pc

\* C1: on an assembled LSigProgram with n >= 1 template values and arguments of
\* matching kinds, running the expression built by populate_template_expr(args)
\* yields exactly the bytes populate_template(args) returns.
C1_PatchEquivalence ==
    (/\ call.op = "populate_template_expr"
     /\ Assembled
     /\ Len(template_values) >= 1
     /\ ArgsMatch(template_values, call.args))
    => /\ call.status = "ok"
       /\ call.value = populate_template(raw_binary, template_values, call.args).value

\* enc(a_i): the encoding of argument i for the kind of placeholder i
Enc(tvs, args, i) == CurrVal(tvs[i], args[i]).val

\* raw[0:pc_1] ++ enc(a_1) ++ raw[pc_1+1:pc_2] ++ ... ++ enc(a_n) ++ raw[pc_n+1:]
RECURSIVE SplicedFrom(_, _, _, _, _)
SplicedFrom(raw, tvs, args, i, from) ==
    IF i > Len(tvs) THEN Slice(raw, from, Len(raw))
    ELSE Slice(raw, from, tvs[i].pc) \o Enc(tvs, args, i)
         \o SplicedFrom(raw, tvs, args, i + 1, tvs[i].pc + 1)

RECURSIVE SumExtra(_, _, _)
SumExtra(tvs, args, i) ==
    IF i = 0 THEN 0 ELSE SumExtra(tvs, args, i - 1) + Len(Enc(tvs, args, i)) - 1

\* C2: populate_template(a_1..a_n) returns raw[0:pc_1] ++ enc(a_1) ++
\* raw[pc_1+1:pc_2] ++ ... ++ enc(a_n) ++ raw[pc_n+1:], of length
\* len(raw) + sum_i (len(enc(a_i)) - 1).
C2_SplicedResult ==
    (/\ call.op = "populate_template"
     /\ Assembled
     /\ call.status = "ok")
    => /\ Val(call.value) =
            SplicedFrom(Val(raw_binary), template_values, call.args, 1, 0)
       /\ Len(Val(call.value)) =
            Len(Val(raw_binary))
            + SumExtra(template_values, call.args, Len(template_values))

\* the call passed the three assertions at the head of populate_template
PastAsserts ==
    /\ raw_binary # None
    /\ Len(template_values) > 0
    /\ Len(call.args) = Len(template_values)

KindMismatchAt(i) ==
    \/ template_values[i].is_bytes /\ call.args[i].type = "int"
    \/ ~template_values[i].is_bytes /\ call.args[i].type \in {"str", "bytes"}

\* C3: populate_template answers a kind mismatch (int for a byte-kind placeholder,
\* str or bytes for an integer-kind one) at any position with TealTypeError and
\* returns no patched binary.
C3_KindMismatchRaises ==
    (/\ call.op = "populate_template"
     /\ PastAsserts
     /\ \E i \in 1..Len(template_values) : KindMismatchAt(i))
    => call.status = "TealTypeError" /\ call.value = None

\* a mismatch that is not at the first position was rejected
C3_Witness ==
    /\ call.op = "populate_template"
    /\ Assembled
    /\ PastAsserts
    /\ Len(template_values) >= 2
    /\ KindMatches(template_values[1], call.args[1])
    /\ KindMismatchAt(2)
    /\ ~template_values[2].is_bytes
    /\ call.status = "TealTypeError"

\* C4: populate_template and populate_template_expr produce no result when the
\* number of arguments differs from the number of template values.
C4_ArgumentCount ==
    (/\ call.op \in {"populate_template", "populate_template_expr"}
     /\ Len(call.args) # Len(template_values))
    => call.status # "ok" /\ call.value = None

\* one argument too many was given to an assembled program with placeholders
C4_Witness ==
    /\ call.op \in {"populate_template", "populate_template_expr"}
    /\ Assembled
    /\ Len(template_values) >= 1
    /\ Len(call.args) = Len(template_values) + 1
    /\ ArgsMatch(template_values, SubSeq(call.args, 1, Len(template_values)))
    /\ call.status = "AssertionError"

\* C5: while no assemble call on the program has completed, every read of the
\* derived data (binary, assertions, hash, the two patch operations) fails.
C5_UninitializedAccess ==
    (/\ ~completed
     /\ call.op \in {"binary", "assertions", "hash", "populate_template",
                     "populate_template_expr"})
    => call.status # "ok"

\* the arguments with every str replaced by its UTF-8 bytes
AsBytes(args) ==
    [i \in 1..Len(args) |->
        IF args[i].type = "str" THEN BytesArg(Utf8(args[i].val)) ELSE args[i]]

\* C10: for a byte-kind placeholder the value spliced is uvarint(len(b)) ++ b with
\* b the bytes argument or the UTF-8 encoding of the str argument, so a str
\* argument gives the result its UTF-8 bytes give.
C10_ByteKindEncoding ==
    (/\ call.op = "populate_template"
     /\ call.status = "ok")
    => /\ call.value =
            populate_template(raw_binary, template_values, AsBytes(call.args)).value
       /\ \A k \in 1..Len(template_values) :
            template_values[k].is_bytes =>
               LET b == TealValue(call.args[k]).val
               IN PatchLoop(Val(raw_binary), template_values, call.args, k).curr_val
                    = py_encode_uvarint(U64(Len(b))) \o b

\* a str whose UTF-8 encoding is longer than its number of characters was spliced
C10_Witness ==
    /\ call.op = "populate_template"
    /\ call.status = "ok"
    /\ Assembled
    /\ \E k \in 1..Len(template_values) :
         /\ call.args[k].type = "str"
         /\ Len(Utf8(call.args[k].val)) > Len(call.args[k].val)

(***************************************************************************)
(* Claims about Program.assertions (specification Spec)                    *)
(***************************************************************************)
\* the text of a single-line comment: what follows the marker "//", without the
\* blanks around it
RECURSIVE TrimBlanks(_)
TrimBlanks(line) ==
    IF line = <<>> THEN line
    ELSE IF line[1] = Sp THEN TrimBlanks(Tail(line))
    ELSE IF line[Len(line)] = Sp THEN TrimBlanks(SubSeq(line, 1, Len(line) - 1))
    ELSE line

CommentText(line) == TrimBlanks(Tail(line))

\* 0-based line idx is an assert instruction directly below a single-line comment
CommentedAssert(idx) ==
    /\ idx >= 1 /\ idx < Len(teal)
    /\ FirstChunk(teal[idx + 1]) = <<"assert">>
    /\ IsComment(teal[idx])

\* C13: for every line whose first token is assert and whose preceding line is a
\* single-line comment, Program.assertions has an entry keyed by the program
\* counter of that line, recording the line's index and the comment's text.
C13_AssertionMapping ==
    (/\ call.op = "assertions"
     /\ Assembled)
    => /\ call.status = "ok"
       /\ \A idx \in 1..(Len(teal) - 1) :
            CommentedAssert(idx) =>
               [pc |-> get_pcs_for_line(Val(source_map), idx)[1], line |-> idx,
                message |-> CommentText(teal[idx])] \in Val(call.value)

\* C14: Program.assertions has an entry only for an assert line whose line
\* directly above is a comment: no entry for an assert below a non-comment line,
\* none for an assert on the first line, and no key that is not the program
\* counter of an assert line.
C14_NoCommentNoEntry ==
    (/\ call.op = "assertions"
     /\ call.status = "ok"
     /\ Assembled)
    => \A a \in Val(call.value) :
          /\ CommentedAssert(a.line)
          /\ a.pc = get_pcs_for_line(Val(source_map), a.line)[1]

(***************************************************************************)
(* Claims about the construction of an LSigProgram (specification Spec)    *)
(***************************************************************************)
\* the source has a line that is exactly '<push-op> <token> // <token>' for v
HasExactLine(lines, v) ==
    \E i \in 1..Len(lines) :
       /\ Len(lines[i]) = 7
       /\ lines[i][1] = (IF v.is_bytes THEN "pushbytes" ELSE "pushint")
       /\ lines[i][2] = Sp /\ lines[i][3] = v.token /\ lines[i][4] = Sp
       /\ lines[i][5] = "//" /\ lines[i][6] = Sp /\ lines[i][7] = v.token

\* the token of v occurs somewhere in the source
MentionsToken(lines, v) ==
    \E i \in 1..Len(lines) : \E j \in 1..Len(lines[i]) : lines[i][j] = v.token

\* C15: constructing an LSigProgram fails, and leaves no program object, if some
\* declared runtime template variable has no line in the source that is exactly
\* '<push-op> <token> // <token>' with the push-op of the variable's kind.
C15_PlaceholderNotFound ==
    (\E k \in 1..Len(rtvars) : ~HasExactLine(program, rtvars[k]))
    => /\ built = "ValueError"
       /\ template_values = <<>>
       /\ raw_binary = None /\ binary_hash = None /\ source_map = None
       /\ call = Idle

\* the construction failed on a source that has the token of every declared
\* variable, one of them on a line with the wrong push-op or with other text
C15_Witness ==
    /\ built = "ValueError"
    /\ Len(rtvars) >= 1
    /\ \A k \in 1..Len(rtvars) : MentionsToken(program, rtvars[k])
    /\ \E k \in 1..Len(rtvars) : ~HasExactLine(program, rtvars[k])

\* the declared variable k was matched at 0-based line idx of the source
MatchedAt(k, idx) ==
    /\ idx >= 0 /\ idx < Len(program)
    /\ HasExactLine(<<program[idx + 1]>>, rtvars[k])

\* C23: for each declared runtime template variable the construction rewrites
\* exactly the matched line '<push-op> <token> // <token>' to
\* '<push-op> <zero> // <token>' (zero is "" for the byte kind, 0 for the integer
\* kind), records a template value with the line's index and the variable's name
\* and kind, and leaves every other line and the number of lines unchanged.
C23_PlaceholderScanning ==
    built = "ok" =>
       /\ Len(teal) = Len(program)
       /\ Len(template_values) = Len(rtvars)
       /\ \A k \in 1..Len(rtvars) :
            LET tv == template_values[k]
                v == rtvars[k]
            IN /\ tv.name = v.name /\ tv.is_bytes = v.is_bytes
               /\ MatchedAt(k, tv.line)
               /\ teal[tv.line + 1] =
                     <<(IF v.is_bytes THEN "pushbytes" ELSE "pushint"), Sp,
                       (IF v.is_bytes THEN "\"\"" ELSE "0"), Sp, "//", Sp, v.token>>
       /\ \A i \in 1..Len(program) :
            (\A k \in 1..Len(template_values) : template_values[k].line # i - 1)
               => teal[i] = program[i]

\* three placeholders were rewritten, declared in another order than their lines,
\* and the program was assembled
C23_Witness ==
    /\ built = "ok"
    /\ Len(template_values) = 3
    /\ template_values[1].line > template_values[2].line
    /\ teal # program
    /\ raw_binary # None

(***************************************************************************)
(* Claims about the errors raised (specification Spec)                     *)
(***************************************************************************)
ErrorKinds ==
    {"UninitializedAccess", "PlaceholderNotFound", "ArgumentCountMismatch",
     "ArgumentTypeMismatch", "ChildCompilationFailure"}

\* the errors the operations raise for each kind of failure
StatusesOf(kind) ==
    LET tv == [PrecompileTemplateValue("a", FALSE, 1) EXCEPT !.pc = 2]
        raw == Some(<<8, 129, 0>>)
    IN CASE kind = "UninitializedAccess" ->
              {BinaryProperty(None, None).status,
               AssertionsProperty(teal, None, None).status,
               LSigHash(None).status,
               populate_template(None, <<tv>>, <<IntArg(5)>>).status,
               populate_template_expr(None, None, <<tv>>, <<IntArg(5)>>).status}
         [] kind = "PlaceholderNotFound" ->
              {IF LSigProgramInit(<<Pragma>>, <<VarA>>).ok THEN "ok" ELSE "ValueError"}
         [] kind = "ArgumentCountMismatch" ->
              {populate_template(raw, <<tv>>, <<>>).status,
               populate_template(raw, <<tv>>, <<IntArg(5), IntArg(5)>>).status,
               populate_template_expr(raw, None, <<tv>>, <<>>).status}
         [] kind = "ArgumentTypeMismatch" ->
              {populate_template(raw, <<tv>>, <<BytesArg(<<7>>)>>).status,
               populate_template_expr(raw, None, <<tv>>, <<BytesArg(<<7>>)>>).status}
         [] kind = "ChildCompilationFailure" ->
              LET o == LSigProgramInit(<<Pragma, PushA>>, <<VarA>>)
              IN {LSigProgramAssemble(FreshProgram @@ [status |-> "ok"],
                                      o.tvs, r).status :
                     r \in Responses(o.lines, o.tvs)} \ {"ok"}

\* C16: the error a failing call raises tells the caller which kind of failure
\* occurred: no error is raised for two of the kinds uninitialized access,
\* placeholder not found, argument count mismatch, argument type mismatch and
\* child compilation failure.
C16_DistinctErrors ==
    call.status # "ok" =>
       Cardinality({kind \in ErrorKinds : call.status \in StatusesOf(kind)}) <= 1

(***************************************************************************)
(* Claims about the assembled state of an LSigProgram (specification Spec) *)
(***************************************************************************)
\* C17: raw_binary, binary_hash and source_map are all unset, or all three are
\* those of one and the same compile response; an assemble call that fails leaves
\* them as they were.
C17_AssemblyAtomicity ==
    \/ raw_binary = None /\ binary_hash = None /\ source_map = None
    \/ /\ raw_binary # None /\ binary_hash # None /\ source_map # None
       /\ \E result \in Responses(teal, template_values) :
            /\ raw_binary = result.result
            /\ binary_hash = result.hash
            /\ source_map = result.sourcemap

\* C18: populate_template and populate_template_expr produce a result only when
\* the pc of every template value has been resolved by LSigProgram.assemble; with
\* a pc still at its default 0 they fail instead of patching at pc 0.
C18_PcResolvedBeforePatch ==
    (/\ call.op \in {"populate_template", "populate_template_expr"}
     /\ \E k \in 1..Len(template_values) : template_values[k].pc = 0)
    => call.status # "ok" /\ call.value = None

\* C19: LSigProgram.hash() fails on a program that has template values; it
\* returns the decoded hash only for an assembled program without any.
C19_HashOfTemplate ==
    call.op = "hash" =>
       /\ Len(template_values) > 0 => call.status # "ok"
       /\ call.status = "ok" => binary_hash # None /\ Len(template_values) = 0

\* C20: after construction and assembly the pcs of _template_values are strictly
\* increasing with the list index, whatever the order in which the runtime
\* template variables were declared.
C20_AscendingPcOrder ==
    Assembled =>
       \A i, j \in 1..Len(template_values) :
          i < j => template_values[i].pc < template_values[j].pc

\* C24: after every successful LSigProgram.assemble the pc of each template
\* value is the first program counter the source map has for the template value's
\* line, plus one; a repeated assemble recomputes every pc from the new source map.
C24_PcFromSourceMap ==
    (call.op = "assemble" /\ call.status = "ok")
    => /\ source_map # None
       /\ \A k \in 1..Len(template_values) :
            LET line == template_values[k].line
            IN /\ line \in DOMAIN Val(source_map)
               /\ Val(source_map)[line] # <<>>
               /\ template_values[k].pc = Val(source_map)[line][1] + 1
               /\ Val(raw_binary)[template_values[k].pc + 1] = 0
               /\ Val(raw_binary)[template_values[k].pc] \in {128, 129}

\* a second assemble succeeded with another binary than the one cached before
C24_Witness ==
    /\ call.op = "assemble" /\ call.status = "ok"
    /\ Len(template_values) >= 2
    /\ binary # None /\ binary # raw_binary

(***************************************************************************)
(* Claims about the bookkeeping of the two patchers (specification Spec)   *)
(***************************************************************************)
\* the call ran the loop of populate_template to its end
PatchRan ==
    /\ call.op = "populate_template"
    /\ PastAsserts
    /\ ArgsMatch(template_values, call.args)

\* C21: in populate_template offset starts at 0; at the start of iteration k it
\* is the sum of len(enc(a_i)) - 1 over i < k; value k is spliced at pc_k + offset
\* in place of exactly one byte; the iteration adds len(enc(a_k)) - 1 to offset;
\* offset never decreases and stays 0 while every earlier value is one byte long.
C21_OffsetBookkeeping ==
    PatchRan =>
       /\ PatchLoop(Val(raw_binary), template_values, call.args, 0).offset = 0
       /\ \A k \in 1..Len(template_values) :
            LET before == PatchLoop(Val(raw_binary), template_values, call.args, k - 1)
                after == PatchLoop(Val(raw_binary), template_values, call.args, k)
                enc == Enc(template_values, call.args, k)
                pos == template_values[k].pc + before.offset
            IN /\ before.offset = SumExtra(template_values, call.args, k - 1)
               /\ pos < Len(before.populated_binary)
               /\ after.populated_binary =
                     Slice(before.populated_binary, 0, pos) \o enc
                     \o Slice(before.populated_binary, pos + 1,
                              Len(before.populated_binary))
               /\ Len(after.populated_binary) =
                     Len(before.populated_binary) + Len(enc) - 1
               /\ after.offset = before.offset + Len(enc) - 1
               /\ after.offset >= before.offset
               /\ (\A i \in 1..(k - 1) : Len(Enc(template_values, call.args, i)) = 1)
                     => before.offset = 0

\* the run of the expression populate_template_expr built, as scratch variables
\* after the stores of the first k template values
ExprRun(k) ==
    ExprLoop(Val(binary), template_values,
             [i \in 1..Len(call.args) |-> TealValue(call.args[i])], k)

\* C22: the sequence built by populate_template_expr starts with last_pos = 0,
\* offset = 0 and buff empty; after the step of template value k last_pos is
\* pc_k + 1, offset is the sum of len(enc(a_i)) - 1 over i <= k, as in
\* populate_template, and buff is the first pc_k + 1 + offset bytes of the patched
\* binary; the suffix raw[pc_n + 1:] is appended once at the end; every slice has
\* start <= end <= len(raw).
C22_SymbolicBookkeeping ==
    (/\ call.op = "populate_template_expr"
     /\ PastAsserts
     /\ ArgsMatch(template_values, call.args))
    => /\ binary = raw_binary
       /\ ExprRun(0).last_pos = 0 /\ ExprRun(0).offset = 0 /\ ExprRun(0).buff = <<>>
       /\ \A k \in 1..Len(template_values) :
            LET st == ExprRun(k)
                patched == Val(populate_template(raw_binary, template_values,
                                                 call.args).value)
            IN /\ ExprRun(k - 1).last_pos <= template_values[k].pc
               /\ template_values[k].pc <= Len(Val(raw_binary))
               /\ st.status = "ok"
               /\ st.last_pos = template_values[k].pc + 1
               /\ st.offset = SumExtra(template_values, call.args, k)
               /\ st.offset = PatchLoop(Val(raw_binary), template_values,
                                        call.args, k).offset
               /\ st.buff = Slice(patched, 0, template_values[k].pc + 1 + st.offset)
       /\ LET last == ExprRun(Len(template_values))
          IN /\ last.last_pos <= Len(Val(raw_binary))
             /\ call.status = "ok"
             /\ call.value = Some(last.buff \o Slice(Val(raw_binary), last.last_pos,
                                                     Len(Val(raw_binary))))

\* C25: a populate_template call, returning or raising, leaves raw_binary,
\* binary_hash, source_map and every template value unchanged, and what it returns
\* is a function of raw_binary, the template values and the arguments alone, so
\* equal calls on the same assembled program return equal bytes whatever other
\* populate_template calls were made in between.
C25_PopulateTemplatePure ==
    [][(call'.op = "populate_template" /\ call.op # "populate_template")
       => /\ UNCHANGED <<raw_binary, binary_hash, source_map, template_values,
                         teal, binary, assertions>>
          /\ call'.status = populate_template(raw_binary', template_values',
                                              call'.args).status
          /\ call'.value = populate_template(raw_binary', template_values',
                                             call'.args).value]_vars

\* a call returned patched bytes and, on the same program, a call raised
C25_Witness ==
    /\ call.op = "populate_template"
    /\ Assembled
    /\ Len(template_values) = 3
    /\ call.status = "ok"
    /\ populate_template(raw_binary, template_values,
                         <<IntArg(5), IntArg(5), IntArg(5)>>).status = "TealTypeError"

(***************************************************************************)
(* Claims about the derived views of a Program (specification Spec)        *)
(***************************************************************************)
\* C28: after any sequence of successful assemble calls the derived views agree
\* with the latest assembly: Program.binary is the byte constant of the current
\* raw_binary, Program.assertions is computed from the current source_map, and
\* populate_template_expr slices the raw_binary that populate_template patches.
C28_DerivedViewsCurrent ==
    Assembled =>
       /\ (call.op = "binary" /\ call.status = "ok") => call.value = raw_binary
       /\ (call.op = "assertions" /\ call.status = "ok")
             => call.value = Some(_gather_asserts(teal, Val(source_map)).asserts)
       /\ (call.op = "populate_template_expr" /\ binary # None)
             => binary = raw_binary

\* C30: on an assembled LSigProgram without template values populate_template()
\* and populate_template_expr() with no argument fail an assertion; neither
\* returns the raw binary.
C30_NoTemplateValues ==
    (/\ call.op \in {"populate_template", "populate_template_expr"}
     /\ Len(template_values) = 0)
    => call.status = "AssertionError" /\ call.value = None

\* populate_template() with no argument failed on an assembled program that
\* declares no template value
C30_Witness ==
    /\ call.op = "populate_template"
    /\ Assembled
    /\ Len(template_values) = 0
    /\ call.args = <<>>
    /\ call.status = "AssertionError"

(***************************************************************************)
(* py_encode_uvarint as a function of its argument (specification          *)
(* SpecVarint)                                                             *)
(***************************************************************************)
LSigIdle ==
    /\ program = <<>> /\ rtvars = <<>> /\ built = "none" /\ teal = <<>>
    /\ template_values = <<>>
    /\ raw_binary = None /\ binary_hash = None /\ source_map = None
    /\ binary = None /\ assertions = None
    /\ completed = FALSE
    /\ call = Idle

\* 2^j and 2^j - 1 as Python ints, 0 <= j <= 63
Pow2(j) == [i \in 1..4 |-> IF i = (j \div 16) + 1 THEN 2 ^ (j % 16) ELSE 0]
Pow2Minus1(j) ==
    [i \in 1..4 |-> IF i < (j \div 16) + 1 THEN Limb - 1
                    ELSE IF i = (j \div 16) + 1 THEN 2 ^ (j % 16) - 1 ELSE 0]

VarintInputs ==
    {Pow2(j) : j \in 0..63} \cup {Pow2Minus1(j) : j \in 0..63}
    \cup {<<a, b, c, d>> : a \in {0, 1, 300}, b \in {0, 129}, c \in {0, 16384},
                           d \in {0, 1, 32768, Limb - 1}}

InitVarint ==
    /\ integer \in VarintInputs
    /\ buffer = None
    /\ LSigIdle
    /\ TreeIdle
    /\ AppIdle

\* buffer = py_encode_uvarint(integer)
EncodeUvarint ==
    /\ buffer = None
    /\ buffer' = Some(py_encode_uvarint(integer))
    /\ UNCHANGED integer
    /\ UNCHANGED lsig_vars
    /\ UNCHANGED tree_vars
    /\ UNCHANGED app_vars

NextVarint == EncodeUvarint

SpecVarint == InitVarint /\ [][NextVarint]_vars

\* bit j of x, 0 beyond the 64 bits
Bit(x, j) == IF j > 63 THEN 0 ELSE BitOf(x, j)

\* bits 7i..7i+6 of x as a number
Group7(x, i) ==
    Bit(x, 7 * i) + 2 * Bit(x, 7 * i + 1) + 4 * Bit(x, 7 * i + 2)
    + 8 * Bit(x, 7 * i + 3) + 16 * Bit(x, 7 * i + 4) + 32 * Bit(x, 7 * i + 5)
    + 64 * Bit(x, 7 * i + 6)

\* x < 2^(7k)
Below(x, k) == \A j \in (7 * k)..63 : Bit(x, j) = 0

\* C8: py_encode_uvarint(x) is the little-endian base-128 encoding of x: byte i
\* carries bits 7i..7i+6, every byte but the last has bit 0x80 set, the last has
\* it clear, and the length is the smallest k >= 1 with x < 2^(7k).
C8_VarintFormat ==
    buffer # None =>
      LET b == Val(buffer)
          n == Len(b)
      IN /\ n >= 1
         /\ \A i \in 0..(n - 1) :
              /\ b[i + 1] \in 0..255
              /\ b[i + 1] % 128 = Group7(integer, i)
              /\ (b[i + 1] >= 128) <=> (i < n - 1)
         /\ Below(integer, n)
         /\ n > 1 => ~Below(integer, n - 1)

\* a ten-byte encoding (x >= 2^63) was produced
C8_Witness == buffer # None /\ Len(Val(buffer)) = 10 /\ integer[4] >= 32768

\* the standard decoder: sum of (byte & 0x7f) << 7i up to the first byte without
\* the continuation bit; value is the number, used the count of bytes consumed
RECURSIVE DecodeFrom(_, _, _)
DecodeFrom(b, i, acc) ==
    IF i > Len(b) THEN [value |-> acc, used |-> i - 1, ended |-> FALSE]
    ELSE LET shift == 7 * (i - 1)
             w == (b[i] % 128) * (2 ^ (shift % 16))
             at == (shift \div 16) + 1
             acc2 == [k \in 1..4 |->
                        acc[k] + (IF k = at THEN w % Limb ELSE 0)
                               + (IF k = at + 1 THEN w \div Limb ELSE 0)]
         IN IF b[i] < 128
            THEN [value |-> acc2, used |-> i, ended |-> TRUE]
            ELSE DecodeFrom(b, i + 1, acc2)

decode_uvarint(b) == DecodeFrom(b, 1, <<0, 0, 0, 0>>)

\* C9: decoding py_encode_uvarint(x) with the standard uvarint decoder yields x
\* and consumes exactly all bytes of the encoding.
C9_VarintRoundTrip ==
    buffer # None =>
      LET d == decode_uvarint(Val(buffer))
      IN d.ended /\ d.value = integer /\ d.used = Len(Val(buffer))

\* a value whose encoding crosses a limb of the representation was round-tripped
C9_Witness ==
    /\ buffer # None
    /\ integer = Pow2Minus1(35)
    /\ Len(Val(buffer)) = 5

(***************************************************************************)
(* AppPrecompile.compile / LSigPrecompile.compile on a tree of precompiles *)
(* (specification SpecTree).  The Python call stack is explicit: a frame   *)
(* is one activation of compile(); an exception no frame handles unwinds   *)
(* the whole stack.                                                        *)
(***************************************************************************)
MaxCompiles == 2

\* the depth of the call stack at which the interpreter raises RecursionError
RecursionLimit == 5

ProgramFields(q) ==
    [raw_binary |-> q.raw_binary, binary_hash |-> q.binary_hash,
     source_map |-> q.source_map]

\* AppPrecompile.__init__(app) / LSigPrecompile.__init__(lsig)
NewPrecompile(kind, precompiles) ==
    [kind |-> kind, precompiles |-> precompiles,
     approval |-> FreshProgram, clear |-> FreshProgram, logic |-> FreshProgram]

\* the dependency graphs given by the caller: app.precompiles.values() per node
Graphs ==
    { [G |-> NewPrecompile("app", <<"P">>), P |-> NewPrecompile("app", <<"C", "L">>),
       C |-> NewPrecompile("app", <<>>), L |-> NewPrecompile("lsig", <<>>)],
      [G |-> NewPrecompile("app", <<"P">>), P |-> NewPrecompile("app", <<"L", "C">>),
       C |-> NewPrecompile("app", <<>>), L |-> NewPrecompile("lsig", <<>>)],
      \* a cycle P -> C -> P
      [G |-> NewPrecompile("app", <<"P">>), P |-> NewPrecompile("app", <<"C", "L">>),
       C |-> NewPrecompile("app", <<"P">>), L |-> NewPrecompile("lsig", <<>>)] }

\* the TEAL app.compile returns, and the TEAL of the logic signature
AppTeal == <<Pragma, <<"return">>>>
LSigTeal == <<Pragma, <<"dup">>, <<"assert">>>>

\* what client.compile may answer during a compile of the tree
TreeResponses(lines) ==
    {GoodResponse(lines, 0), CompileError,
     [GoodResponse(lines, 0) EXCEPT !.hash = None],
     [GoodResponse(lines, 0) EXCEPT !.sourcemap = None]}

Populated(n) ==
    IF nodes[n].kind = "app"
    THEN nodes[n].approval.raw_binary # None /\ nodes[n].clear.raw_binary # None
    ELSE nodes[n].logic.raw_binary # None

Frame(n) ==
    [node |-> n, pc |-> IF nodes[n].kind = "app" THEN "loop" ELSE "assemble",
     i |-> 1,
     entry |-> [approval |-> nodes[n].approval, clear |-> nodes[n].clear]]

Event(ev, n, depth, traceback) ==
    [ev |-> ev, node |-> n, depth |-> depth, traceback |-> traceback]

Top == stack[Len(stack)]

\* the for loop over self.app.precompiles.values() has no element left
LoopDone_bad(precompiles, i) == i >= Len(precompiles)

\* the loop leaving after its first element
LoopDone_first(precompiles, i) == i > 1 \/ i > Len(precompiles)

LoopDone(precompiles, i) == i > Len(precompiles)

\* an exception raised in a frame: compile() has no handler, every frame is left
Propagate_swallowed(stk) == SubSeq(stk, 1, Len(stk) - 1)

Propagate(stk) == <<>>

InitTree ==
    /\ nodes \in Graphs
    /\ stack = <<>>
    /\ log = <<>>
    /\ ncompile = 0
    /\ LSigIdle
    /\ VarintIdle
    /\ AppIdle

\* precompile.compile(client) called from outside on any node
StartCompile ==
    /\ stack = <<>>
    /\ ncompile < MaxCompiles
    /\ \E n \in DOMAIN nodes :
         /\ stack' = <<Frame(n)>>
         /\ log' = <<Event("call", n, 1, <<>>)>>
    /\ ncompile' = ncompile + 1
    /\ UNCHANGED nodes
    /\ UNCHANGED lsig_vars
    /\ UNCHANGED varint_vars
    /\ UNCHANGED app_vars

\* for p in self.app.precompiles.values(): p.compile(client)
CallChild ==
    /\ stack # <<>>
    /\ Top.pc = "loop"
    /\ ~LoopDone(nodes[Top.node].precompiles, Top.i)
    /\ Len(stack) < RecursionLimit
    /\ LET p == nodes[Top.node].precompiles[Top.i]
       IN /\ stack' = Append([stack EXCEPT ![Len(stack)].i = Top.i + 1], Frame(p))
          /\ log' = Append(log, Event("call", p, Len(stack) + 1, <<>>))
    /\ UNCHANGED <<nodes, ncompile>>
    /\ UNCHANGED lsig_vars
    /\ UNCHANGED varint_vars
    /\ UNCHANGED app_vars

\* p.compile(client) when the call stack is full: RecursionError
RecursionError ==
    /\ stack # <<>>
    /\ Top.pc = "loop"
    /\ ~LoopDone(nodes[Top.node].precompiles, Top.i)
    /\ Len(stack) >= RecursionLimit
    /\ log' = Append(log, Event("raise", Top.node, Len(stack), stack))
    /\ stack' = Propagate(stack)
    /\ UNCHANGED <<nodes, ncompile>>
    /\ UNCHANGED lsig_vars
    /\ UNCHANGED varint_vars
    /\ UNCHANGED app_vars

\* approval, clear = self.app.compile(client); the two AppProgram assignments
AppCompile ==
    /\ stack # <<>>
    /\ Top.pc = "loop"
    /\ LoopDone(nodes[Top.node].precompiles, Top.i)
    /\ \E raises \in BOOLEAN :
         IF raises \/ \E c \in DOMAIN nodes[Top.node].precompiles :
                         ~Populated(nodes[Top.node].precompiles[c])
         THEN /\ log' = log \o <<Event("app_compile", Top.node, Len(stack), <<>>),
                                 Event("raise", Top.node, Len(stack), stack)>>
              /\ stack' = Propagate(stack)
              /\ UNCHANGED nodes
         ELSE /\ log' = Append(log, Event("app_compile", Top.node, Len(stack), <<>>))
              /\ nodes' = [nodes EXCEPT ![Top.node].approval = FreshProgram,
                                        ![Top.node].clear = FreshProgram]
              /\ stack' = [stack EXCEPT ![Len(stack)].pc = "assemble_approval"]
    /\ UNCHANGED ncompile
    /\ UNCHANGED lsig_vars
    /\ UNCHANGED varint_vars
    /\ UNCHANGED app_vars

\* self.approval.assemble(client)
AssembleApproval ==
    /\ stack # <<>>
    /\ Top.pc = "assemble_approval"
    /\ \E result \in TreeResponses(AppTeal) :
         LET q == ProgramAssemble(
                     nodes[Top.node].approval @@ [status |-> "ok"], result)
         IN /\ nodes' = [nodes EXCEPT ![Top.node].approval = ProgramFields(q)]
            /\ IF q.status = "ok"
               THEN /\ stack' = [stack EXCEPT ![Len(stack)].pc = "assemble_clear"]
                    /\ log' = Append(log, Event("assemble_approval", Top.node,
                                                Len(stack), <<>>))
               ELSE /\ stack' = Propagate(stack)
                    /\ log' = log \o <<Event("assemble_approval", Top.node,
                                             Len(stack), <<>>),
                                       Event("raise", Top.node, Len(stack), stack)>>
    /\ UNCHANGED ncompile
    /\ UNCHANGED lsig_vars
    /\ UNCHANGED varint_vars
    /\ UNCHANGED app_vars

\* self.clear.assemble(client), after which compile returns
AssembleClear ==
    /\ stack # <<>>
    /\ Top.pc = "assemble_clear"
    /\ \E result \in TreeResponses(AppTeal) :
         LET q == ProgramAssemble(nodes[Top.node].clear @@ [status |-> "ok"], result)
         IN /\ nodes' = [nodes EXCEPT ![Top.node].clear = ProgramFields(q)]
            /\ IF q.status = "ok"
               THEN /\ stack' = SubSeq(stack, 1, Len(stack) - 1)
                    /\ log' = log \o <<Event("assemble_clear", Top.node,
                                             Len(stack), <<>>),
                                       Event("return", Top.node, Len(stack), <<>>)>>
               ELSE /\ stack' = Propagate(stack)
                    /\ log' = log \o <<Event("assemble_clear", Top.node,
                                             Len(stack), <<>>),
                                       Event("raise", Top.node, Len(stack), stack)>>
    /\ UNCHANGED ncompile
    /\ UNCHANGED lsig_vars
    /\ UNCHANGED varint_vars
    /\ UNCHANGED app_vars

\* LSigPrecompile.compile: self.logic.assemble(client)
LSigCompile ==
    /\ stack # <<>>
    /\ Top.pc = "assemble"
    /\ \E result \in TreeResponses(LSigTeal) :
         LET r == LSigProgramAssemble(nodes[Top.node].logic @@ [status |-> "ok"],
                                      <<>>, result)
         IN /\ nodes' = [nodes EXCEPT ![Top.node].logic = ProgramFields(r.p)]
            /\ IF r.status = "ok"
               THEN /\ stack' = SubSeq(stack, 1, Len(stack) - 1)
                    /\ log' = log \o <<Event("assemble", Top.node, Len(stack), <<>>),
                                       Event("return", Top.node, Len(stack), <<>>)>>
               ELSE /\ stack' = Propagate(stack)
                    /\ log' = log \o <<Event("assemble", Top.node, Len(stack), <<>>),
                                       Event("raise", Top.node, Len(stack), stack)>>
    /\ UNCHANGED ncompile
    /\ UNCHANGED lsig_vars
    /\ UNCHANGED varint_vars
    /\ UNCHANGED app_vars

NextTree ==
    \/ StartCompile
    \/ CallChild
    \/ RecursionError
    \/ AppCompile
    \/ AssembleApproval
    \/ AssembleClear
    \/ LSigCompile

SpecTree == InitTree /\ [][NextTree]_vars

(***************************************************************************)
(* Claims about the compile order (specification SpecTree)                 *)
(***************************************************************************)
\* index in log of the latest "call" at this depth before position j
CallIndex(depth, j) ==
    CHOOSE c \in 1..j :
       /\ log[c].ev = "call" /\ log[c].depth = depth
       /\ \A d \in (c + 1)..j : ~(log[d].ev = "call" /\ log[d].depth = depth)

\* the nodes of the events `ev` of the direct children of the activation at
\* `depth` that is running at position j of log, in the order they happened
ChildEvents(ev, depth, j) ==
    LET from == CallIndex(depth, j)
        sel == SelectSeq([k \in 1..(j - from) |-> log[from + k]],
                         LAMBDA e : e.ev = ev /\ e.depth = depth + 1)
    IN [k \in 1..Len(sel) |-> sel[k].node]

IsPrefix(s, t) == Len(s) <= Len(t) /\ s = SubSeq(t, 1, Len(s))

\* C6: when the source-generation step app.compile of a node starts, every nested
\* precompile of the node has returned from its own compile with its binaries
\* populated, at every level; the nested precompiles are compiled one after
\* another in precompiles order, never two at a time.
C6_DepthFirstOrder ==
    /\ \A j \in 1..Len(log) :
         log[j].ev = "app_compile" =>
            /\ ChildEvents("return", log[j].depth, j) = nodes[log[j].node].precompiles
            /\ \A c \in DOMAIN nodes[log[j].node].precompiles :
                  Populated(nodes[log[j].node].precompiles[c])
    /\ \A k \in 1..Len(stack) :
         LET calls == ChildEvents("call", k, Len(log))
             returns == ChildEvents("return", k, Len(log))
         IN /\ IsPrefix(calls, nodes[stack[k].node].precompiles)
            /\ IsPrefix(returns, calls)
            /\ Len(calls) - Len(returns) = (IF k < Len(stack) THEN 1 ELSE 0)
            /\ k < Len(stack) => stack[k + 1].node = calls[Len(calls)]

\* the grandparent starts its app.compile after parent and both children returned
C6_Witness ==
    /\ Len(log) >= 1
    /\ log[Len(log)].ev = "app_compile"
    /\ log[Len(log)].node = "G"
    /\ ChildEvents("return", 1, Len(log)) = <<"P">>
    /\ \E j \in 1..Len(log) :
         /\ log[j].ev = "app_compile" /\ log[j].node = "P"
         /\ Len(ChildEvents("return", 2, j)) = 2

\* C7: when the compile of a nested precompile raises, the error leaves the
\* parent's compile at once: nothing more is executed in that call (no retry, no
\* sibling compiled, no app.compile or assemble of the parent, no substituted
\* binary) and the approval and clear programs of every enclosing node are as
\* they were when its compile was entered.
C7_ChildFailurePropagates ==
    \A j \in 1..Len(log) :
       log[j].ev = "raise" =>
          /\ j = Len(log)
          /\ stack = <<>>
          /\ \A k \in 1..(Len(log[j].traceback) - 1) :
               LET f == log[j].traceback[k]
               IN /\ f.pc = "loop"
                  /\ nodes[f.node].approval = f.entry.approval
                  /\ nodes[f.node].clear = f.entry.clear

\* a grandchild raised while its sibling was still waiting to be compiled
C7_Witness ==
    /\ Len(log) >= 1
    /\ log[Len(log)].ev = "raise"
    /\ log[Len(log)].depth = 3
    /\ Len(ChildEvents("call", 2, Len(log))) = 1
    /\ stack = <<>>
    /\ ~Populated("P") /\ ~Populated("G")

\* C26: whenever no compile is running and the approval and clear binaries of
\* an AppPrecompile node are populated, the binaries of every nested precompile
\* of its app are populated too, after any sequence of compile calls, successful
\* or failing.
C26_PopulationInvariant ==
    stack = <<>> =>
       \A n \in DOMAIN nodes :
          (nodes[n].kind = "app" /\ Populated(n))
             => \A c \in DOMAIN nodes[n].precompiles :
                   Populated(nodes[n].precompiles[c])

\* C29: whenever no compile is running, the approval binary of an AppPrecompile
\* is populated if and only if its clear binary is, also after a compile call that
\* failed part-way and after a failing re-compile of a populated node.
C29_ApprovalIffClear ==
    stack = <<>> =>
       \A n \in DOMAIN nodes :
          nodes[n].kind = "app"
             => (nodes[n].approval.raw_binary # None
                   <=> nodes[n].clear.raw_binary # None)

\* a compile() that was called runs on: the interpreter executes its next
\* statement and the compiler answers every request
SpecTreeFair ==
    /\ InitTree
    /\ [][NextTree]_vars
    /\ WF_vars(CallChild \/ RecursionError \/ AppCompile \/ AssembleApproval
               \/ AssembleClear \/ LSigCompile)

Children(n) == {nodes[n].precompiles[c] : c \in DOMAIN nodes[n].precompiles}

RECURSIVE ReachIn(_, _)
ReachIn(S, k) ==
    IF k = 0 THEN S ELSE ReachIn(S \cup UNION {Children(m) : m \in S}, k - 1)

\* the nodes of the dependency graph reachable from n, n included
Reachable(n) == ReachIn({n}, Cardinality(DOMAIN nodes))

\* n depends on itself
OnCycle(n) == n \in ReachIn(Children(n), Cardinality(DOMAIN nodes))

\* the top-level compile call has returned to its caller without an exception
ReturnedNormally ==
    /\ stack = <<>>
    /\ log # <<>>
    /\ log[Len(log)].ev = "return"

\* C27: every compile call ends (the compiler always answers); when it returns
\* normally the graph reachable from its node has no cycle and every reachable
\* node was compiled in the call; on a graph with a cycle the call never returns
\* normally.
C27_Termination ==
    /\ (stack # <<>>) ~> (stack = <<>>)
    /\ [](ReturnedNormally =>
            \A m \in Reachable(log[1].node) :
               /\ ~OnCycle(m)
               /\ \E j \in 1..Len(log) : log[j].ev = "return" /\ log[j].node = m)

\* compile on the root of the acyclic tree returned after all four nodes
C27_Witness ==
    /\ ReturnedNormally
    /\ log[1].node = "G"
    /\ Reachable("G") = {"G", "P", "C", "L"}
    /\ Cardinality({j \in 1..Len(log) : log[j].ev = "return"}) = 4

\* compile on a node of the cycle P -> C -> P ended in RecursionError
CycleRaised ==
    /\ stack = <<>>
    /\ log # <<>>
    /\ OnCycle(log[1].node)
    /\ log[Len(log)].ev = "raise"
    /\ log[Len(log)].depth = RecursionLimit

(***************************************************************************)
(* One AppPrecompile after app.compile: AppProgram.program_pages and       *)
(* AppPrecompile.get_create_config (specification SpecPages).  The         *)
(* compiler is external; its binary may have any length.                   *)
(***************************************************************************)
\* algosdk.constants.APP_PAGE_MAX_SIZE
APP_PAGE_MAX_SIZE == 2048

\* lengths of the binaries the compiler answers with
BinarySizes ==
    {1, 10, APP_PAGE_MAX_SIZE - 1, APP_PAGE_MAX_SIZE, APP_PAGE_MAX_SIZE + 1,
     2 * APP_PAGE_MAX_SIZE, 2 * APP_PAGE_MAX_SIZE + 10, 3 * APP_PAGE_MAX_SIZE}

\* a binary of n bytes whose bytes differ from page to page
BinaryOf(n, seed) == [i \in 1..n |-> (i * 7 + (i \div APP_PAGE_MAX_SIZE) + seed) % 256]

\* what client.compile may answer for an application program
AppResponses ==
    {[raises |-> FALSE, result |-> Some(BinaryOf(n, seed)),
      hash |-> Some(<<"sha512_256", n, seed>>), sourcemap |-> Some(<<>>)] :
        n \in BinarySizes, seed \in {0, 1}}
    \cup {CompileError,
          [raises |-> FALSE, result |-> Some(BinaryOf(10, 0)), hash |-> None,
           sourcemap |-> None]}

\* range(0, n, step)
Range(n, step) == [k \in 1..((n + step - 1) \div step) |-> (k - 1) * step]

\* program_pages losing the last, shorter page
program_pages_bad(raw) ==
    IF raw = None THEN [status |-> "AssertionError", value |-> None]
    ELSE LET r == Range(Len(Val(raw)) - APP_PAGE_MAX_SIZE + 1, APP_PAGE_MAX_SIZE)
         IN [status |-> "ok",
             value |-> Some([k \in 1..Len(r) |->
                               Slice(Val(raw), r[k], r[k] + APP_PAGE_MAX_SIZE)])]

\* AppProgram.program_pages
program_pages(raw) ==
    IF raw = None THEN [status |-> "AssertionError", value |-> None]
    ELSE LET r == Range(Len(Val(raw)), APP_PAGE_MAX_SIZE)
         IN [status |-> "ok",
             value |-> Some([k \in 1..Len(r) |->
                               Slice(Val(raw), r[k], r[k] + APP_PAGE_MAX_SIZE)])]

\* extra pages counted for each program on its own
num_extra_program_pages_each(approval_binary, clear_binary) ==
    ((Len(approval_binary) + APP_PAGE_MAX_SIZE - 1) \div APP_PAGE_MAX_SIZE) - 1
    + ((Len(clear_binary) + APP_PAGE_MAX_SIZE - 1) \div APP_PAGE_MAX_SIZE) - 1

\* beaker.consts.num_extra_program_pages: ceil(total / page size) - 1
num_extra_program_pages(approval_binary, clear_binary) ==
    ((Len(approval_binary) + Len(clear_binary) + APP_PAGE_MAX_SIZE - 1)
        \div APP_PAGE_MAX_SIZE) - 1

\* AppPrecompile.get_create_config: the three fields that depend on the binaries
get_create_config(a, c) ==
    IF a.raw_binary = None \/ c.raw_binary = None
    THEN [status |-> "AssertionError", value |-> None]
    ELSE [status |-> "ok",
          value |-> Some(
             [approval_program_pages |-> Val(program_pages(a.raw_binary).value),
              clear_state_program_pages |-> Val(program_pages(c.raw_binary).value),
              extra_program_pages |->
                  num_extra_program_pages(Val(a.raw_binary), Val(c.raw_binary))])]

InitPages ==
    /\ approval = FreshProgram
    /\ clear = FreshProgram
    /\ config = Idle
    /\ LSigIdle
    /\ VarintIdle
    /\ TreeIdle

\* self.approval.assemble(client)
AssembleApprovalProgram ==
    /\ config = Idle
    /\ \E result \in AppResponses :
         LET q == ProgramAssemble(approval @@ [status |-> "ok"], result)
         IN /\ approval' = ProgramFields(q)
            /\ config' = Call("approval.assemble", <<>>, q.status, None)
    /\ UNCHANGED clear
    /\ UNCHANGED lsig_vars
    /\ UNCHANGED varint_vars
    /\ UNCHANGED tree_vars

\* self.clear.assemble(client)
AssembleClearProgram ==
    /\ config = Idle
    /\ \E result \in AppResponses :
         LET q == ProgramAssemble(clear @@ [status |-> "ok"], result)
         IN /\ clear' = ProgramFields(q)
            /\ config' = Call("clear.assemble", <<>>, q.status, None)
    /\ UNCHANGED approval
    /\ UNCHANGED lsig_vars
    /\ UNCHANGED varint_vars
    /\ UNCHANGED tree_vars

\* self.approval.program_pages
ApprovalPages ==
    /\ config = Idle
    /\ LET r == program_pages(approval.raw_binary)
       IN config' = Call("approval.program_pages", <<>>, r.status, r.value)
    /\ UNCHANGED <<approval, clear>>
    /\ UNCHANGED lsig_vars
    /\ UNCHANGED varint_vars
    /\ UNCHANGED tree_vars

\* precompile.get_create_config()
GetCreateConfig ==
    /\ config = Idle
    /\ LET r == get_create_config(approval, clear)
       IN config' = Call("get_create_config", <<>>, r.status, r.value)
    /\ UNCHANGED <<approval, clear>>
    /\ UNCHANGED lsig_vars
    /\ UNCHANGED varint_vars
    /\ UNCHANGED tree_vars

\* the caller takes the outcome
ReturnConfig ==
    /\ config # Idle
    /\ config' = Idle
    /\ UNCHANGED <<approval, clear>>
    /\ UNCHANGED lsig_vars
    /\ UNCHANGED varint_vars
    /\ UNCHANGED tree_vars

NextPages ==
    \/ AssembleApprovalProgram
    \/ AssembleClearProgram
    \/ ApprovalPages
    \/ GetCreateConfig
    \/ ReturnConfig

SpecPages == InitPages /\ [][NextPages]_vars

\* an AppProgram as a completed assemble leaves it
AssembledProgram(p) ==
    p.raw_binary # None /\ p.binary_hash # None /\ p.source_map # None

\* C11: program_pages of an assembled AppProgram is the sequence of consecutive
\* chunks of raw_binary, in order: their concatenation is raw_binary, every chunk
\* but the last has exactly APP_PAGE_MAX_SIZE bytes and the last has between 1 and
\* APP_PAGE_MAX_SIZE bytes.
C11_PageSplitting ==
    (/\ config.op = "approval.program_pages"
     /\ AssembledProgram(approval))
    => /\ config.status = "ok"
       /\ LET pages == Val(config.value)
          IN /\ Flatten(pages) = Val(approval.raw_binary)
             /\ \A k \in 1..(Len(pages) - 1) : Len(pages[k]) = APP_PAGE_MAX_SIZE
             /\ Len(pages) >= 1 =>
                  /\ Len(pages[Len(pages)]) >= 1
                  /\ Len(pages[Len(pages)]) <= APP_PAGE_MAX_SIZE

\* a binary of 2 * page size + 10 bytes was split into pages of sizes
\* [page size, page size, 10]
C11_Witness ==
    /\ config.op = "approval.program_pages"
    /\ AssembledProgram(approval)
    /\ Len(Val(approval.raw_binary)) = 2 * APP_PAGE_MAX_SIZE + 10
    /\ config.status = "ok"
    /\ [k \in 1..Len(Val(config.value)) |-> Len(Val(config.value)[k])]
          = <<APP_PAGE_MAX_SIZE, APP_PAGE_MAX_SIZE, 10>>

\* the smallest n >= 0 with n * d >= x
Ceil(x, d) == CHOOSE n \in 0..x : n * d >= x /\ \A m \in 0..(n - 1) : m * d < x

\* C12: the extra_program_pages of get_create_config is
\* ceil((len(approval binary) + len(clear binary)) / page size) - 1, over the
\* combined size of the two programs.
C12_ExtraPages ==
    (/\ config.op = "get_create_config"
     /\ config.status = "ok")
    => /\ Val(config.value).extra_program_pages =
            Ceil(Len(Val(approval.raw_binary)) + Len(Val(clear.raw_binary)),
                 APP_PAGE_MAX_SIZE) - 1
       /\ Val(config.value).approval_program_pages
            = Val(program_pages(approval.raw_binary).value)
       /\ Val(config.value).clear_state_program_pages
            = Val(program_pages(clear.raw_binary).value)

\* two programs that each fit one page need an extra page together
C12_Witness ==
    /\ config.op = "get_create_config"
    /\ config.status = "ok"
    /\ Len(Val(approval.raw_binary)) = APP_PAGE_MAX_SIZE - 1
    /\ Len(Val(clear.raw_binary)) = 10
    /\ Val(config.value).extra_program_pages = 1

====
